---- MODULE Spec2Model ----
(***************************************************************************)
(* QKart backend: the cart service (getCartByUser, addProductToCart,       *)
(* updateProductInCart, deleteProductFromCart, checkout), the carts        *)
(* collection it reads and writes, and the auth middleware in front of it. *)
(***************************************************************************)
EXTENDS Integers, Sequences, FiniteSets, TLC

(***************************************************************************)
(* Bounds of the model.                                                    *)
(***************************************************************************)
MaxItems == 2
MaxQuantity == 1
MaxWallet == 1
MaxTime == 3

(***************************************************************************)
(* http-status codes used by the service and the middleware.               *)
(***************************************************************************)
OK == 200
BAD_REQUEST == 400
UNAUTHORIZED == 401
FORBIDDEN == 403
NOT_FOUND == 404
INTERNAL_SERVER_ERROR == 500

(***************************************************************************)
(* Data.  A user is identified by email.  An ObjectId is 12 bytes; a       *)
(* product id reaches the service as a string.  Product.findById casts the *)
(* string to an ObjectId, and the cast reads hex digits of either case;    *)
(* `objectId == string` compares objectId.toString(), which is always      *)
(* lower-case hex, with the string as given.  A product id string is       *)
(* therefore modelled as the ObjectId it denotes and the case it is        *)
(* written in.                                                             *)
(***************************************************************************)
\* The signed-in users whose requests are followed, and another customer whose
\* cart is already in the collection.
Users == {"u1"}
OtherEmail == "u0"
ObjectIds == {"p1", "p2", "p3"}
ProductIds == [hex : ObjectIds, upper : BOOLEAN]
Quantities == -1 .. MaxQuantity

Null == "null"
default_address == "ADDRESS_NOT_SET"
Addresses == {default_address, "12 Main Street"}

\* The products collection: p3 is no product.
Products == {[_id |-> "p1", cost |-> 1], [_id |-> "p2", cost |-> 2]}

toString(oid) == [hex |-> oid, upper |-> FALSE]
castObjectId(pid) == pid.hex
\* objectId == productId  (JavaScript's loose equality of an ObjectId and a string)
LooseEq(oid, pid) == toString(oid) = pid

(***************************************************************************)
(* Requests as the auth middleware sees them.  The Authorization header is *)
(* its first seven characters (prefix) and the rest (what substring(7)     *)
(* returns).  A token is what jwt.verify can tell of it: whether it parses *)
(* as a JWT, whether its signature matches config.jwt.secret, and its      *)
(* payload's type and exp (NoExp: the payload has no exp).                 *)
(***************************************************************************)
NoExp == -1
NoError == 0
UserIds == {"id1", "id2"}
\* user._id of each user document
IdOf(u) == "id1"

MalformedToken == [wellFormed |-> FALSE, signed |-> FALSE, type |-> "none", exp |-> NoExp]
GoodToken == [wellFormed |-> TRUE, signed |-> TRUE, type |-> "access", exp |-> NoExp]
ForgedToken == [wellFormed |-> TRUE, signed |-> FALSE, type |-> "access", exp |-> NoExp]
UntypedToken == [wellFormed |-> TRUE, signed |-> TRUE, type |-> "none", exp |-> NoExp]
Tokens ==
    {MalformedToken, ForgedToken, UntypedToken} \cup
    [wellFormed : {TRUE}, signed : {TRUE}, type : {"access", "refresh"},
     exp : {NoExp} \cup (0 .. MaxTime)]
NoHeader == [present |-> FALSE, prefix |-> "", token |-> MalformedToken]
Headers ==
    {NoHeader} \cup
    [present : {TRUE}, prefix : {"Basic ", "bearer ", "Bearer:"}, token : {GoodToken}] \cup
    [present : {TRUE}, prefix : {"Bearer "}, token : Tokens]
\* req.headers['authorization'], req.params.userId and req.user (Null: not set)
Requests == [authorization : Headers, userId : UserIds \cup {Null}, user : {Null}]
NoRequest == [authorization |-> NoHeader, userId |-> Null, user |-> Null]
\* What the passport strategy reports to the callback: err, user (Null for false)
\* and info (NoInfo for undefined, else an object with an _id).
NoInfo == [present |-> FALSE, _id |-> Null]
Infos == {NoInfo} \cup [present : {TRUE}, _id : UserIds]
NoReport == [called |-> FALSE, err |-> FALSE, user |-> Null, info |-> NoInfo]

\* Requests in flight at the same time, each running one call of the cart service.
Procs == {"a", "b"}

VARIABLES carts, users, res, req, clock, pc, promise, report, nextCalls,
          cartVersions, proc

cartVars == <<carts, users, res>>
authVars == <<req, clock, pc, promise, report, nextCalls>>
concVars == <<cartVersions, proc>>
vars == <<carts, users, res, req, clock, pc, promise, report, nextCalls, cartVersions, proc>>

(***************************************************************************)
(* The carts collection: a sequence of documents {email, cartItems}, in    *)
(* insertion order.  cartItems is a sequence of {product, quantity}.       *)
(***************************************************************************)
Indexes(email) == {i \in 1 .. Len(carts) : carts[i].email = email}
Min(S) == CHOOSE x \in S : \A y \in S : x <= y

\* Mutant of findOne: the email filter dropped, the first document returned.
findOne_AnyEmail(email) == IF carts = <<>> THEN 0 ELSE 1

\* Cart.findOne({email}): the index of the first matching document, 0 for null.
findOne(email) == IF Indexes(email) = {} THEN 0 ELSE Min(Indexes(email))

\* Product.findById(productId); NullProduct stands for null
NullProduct == [_id |-> Null, cost |-> 0]

\* Mutant of findById: a product is returned for every id.
findById_AnyId(pid) ==
    IF \E p \in Products : p._id = castObjectId(pid)
    THEN CHOOSE p \in Products : p._id = castObjectId(pid)
    ELSE [_id |-> castObjectId(pid), cost |-> 0]

findById(pid) ==
    IF \E p \in Products : p._id = castObjectId(pid)
    THEN CHOOSE p \in Products : p._id = castObjectId(pid)
    ELSE NullProduct

\* cartItems.some(item => item.product._id == productId)
some(items, pid) == \E i \in 1 .. Len(items) : LooseEq(items[i].product._id, pid)

\* cartItems.findIndex(ele => ele.product._id == productId), 1-based, 0 for -1
findIndex(items, pid) ==
    IF some(items, pid)
    THEN Min({i \in 1 .. Len(items) : LooseEq(items[i].product._id, pid)})
    ELSE 0

\* Mutant of filter: the test inverted, keeping the matching items.
filter_Inverted(items, pid) == SelectSeq(items, LAMBDA item : LooseEq(item.product._id, pid))

\* cartItems.filter(item => item.product._id != productId)
filter(items, pid) == SelectSeq(items, LAMBDA item : ~LooseEq(item.product._id, pid))

\* Mutant of forEachCost: the quantity left out of the total.
RECURSIVE forEachCost_IgnoresQuantity(_, _)
forEachCost_IgnoresQuantity(items, totalCost) ==
    IF items = <<>> THEN totalCost
    ELSE forEachCost_IgnoresQuantity(Tail(items), totalCost + Head(items).product.cost)

\* let totalCost = 0; cartItems.forEach(item => totalCost += item.product.cost*item.quantity)
RECURSIVE forEachCost(_, _)
forEachCost(items, totalCost) ==
    IF items = <<>> THEN totalCost
    ELSE forEachCost(Tail(items), totalCost + Head(items).product.cost * Head(items).quantity)

\* The record of a call: its arguments and what it answered; ret is <<cartItems>>
\* when the call returned a cart and <<>> when it returned nothing.
Call(op, u, pid, q, status, message, ret) ==
    [op |-> op, user |-> u, productId |-> pid, quantity |-> q,
     status |-> status, message |-> message, ret |-> ret]

\* throw new ApiError(status, message): nothing is saved.
Throw(op, u, pid, q, status, message) ==
    /\ res' = Call(op, u, pid, q, status, message, <<>>)
    /\ UNCHANGED <<carts, users>>

NoProductId == [hex |-> Null, upper |-> FALSE]

\* Mutant of save: a cart written with no items is removed from the collection.
save_RemovesEmptied(i, cartItems) ==
    IF cartItems = <<>>
    THEN SubSeq(carts, 1, i - 1) \o SubSeq(carts, i + 1, Len(carts))
    ELSE [carts EXCEPT ![i].cartItems = cartItems]

\* obtainCart.save(): document i of the collection is written with its new items.
save(i, cartItems) == [carts EXCEPT ![i].cartItems = cartItems]

\* Mutants of checkout's conditions: the empty-cart test dropped; >= for >.
cartHasNoItems_Never(cartItems) == FALSE
insufficientBalance_OrEqual(totalCost, user) == totalCost >= user.walletMoney

\* checkout's conditions
cartHasNoItems(cartItems) == Len(cartItems) = 0
addressNotSet(user) == user.address = default_address
insufficientBalance_Never(totalCost, user) == FALSE

insufficientBalance(totalCost, user) == totalCost > user.walletMoney

\* A request's own copies: the user document loaded for req.user, the cart
\* document findOne returned (idx 0: null) with the __v it was read at, and how
\* far the call has come.  proc holds the calls made so far: a process that
\* has made no call is not in its domain.
NoLocalCart == [idx |-> 0, cartItems |-> <<>>, v |-> 0]
IdleProc ==
    [pc |-> "idle", op |-> "none", productId |-> NoProductId, quantity |-> 0,
     user |-> [email |-> Null, address |-> default_address, walletMoney |-> 0],
     obtainCart |-> NoLocalCart, totalCost |-> 0, status |-> OK, message |-> "",
     wroteCart |-> FALSE, wroteUser |-> FALSE]

Init ==
    /\ carts = <<[email |-> OtherEmail,
                  cartItems |-> <<[product |-> [_id |-> "p1", cost |-> 1], quantity |-> 1]>>]>>
    /\ users \in [Users -> [address : Addresses, walletMoney : 0 .. MaxWallet]]
    /\ res = Call("none", Null, NoProductId, 0, OK, "", <<>>)
    /\ req = NoRequest
    /\ clock = [verify |-> 1, check |-> 1]
    /\ pc = "idle"
    /\ promise = [state |-> "none", reason |-> NoError]
    /\ report = NoReport
    /\ nextCalls = <<>>
    /\ cartVersions = <<0>>
    /\ proc = [p \in {} |-> IdleProc]

getCartByUser(u) ==
    LET i == findOne(u) IN
    IF i = 0
    THEN Throw("getCartByUser", u, NoProductId, 0, NOT_FOUND, "User does not have a cart")
    ELSE /\ res' = Call("getCartByUser", u, NoProductId, 0, OK, "", <<carts[i].cartItems>>)
         /\ UNCHANGED <<carts, users>>

addProductToCart(u, pid, q) ==
    LET i == findOne(u)
        product == findById(pid)
    IN
    IF product = NullProduct
    THEN Throw("addProductToCart", u, pid, q, BAD_REQUEST, "Product doesn't exist in database")
    ELSE IF i = 0
    THEN \* Cart.create: the unique index on email refuses a second document
         IF Indexes(u) # {}
         THEN Throw("addProductToCart", u, pid, q, INTERNAL_SERVER_ERROR, "E11000 duplicate key")
         ELSE /\ carts' = Append(carts, [email |-> u,
                                         cartItems |-> <<[product |-> product, quantity |-> q]>>])
              /\ res' = Call("addProductToCart", u, pid, q, OK, "",
                             <<(<<[product |-> product, quantity |-> q]>>)>>)
              /\ UNCHANGED users
    ELSE IF some(carts[i].cartItems, pid)
    THEN Throw("addProductToCart", u, pid, q, BAD_REQUEST, "Product already in cart")
    ELSE /\ Len(carts[i].cartItems) < MaxItems
         /\ carts' = save(i, Append(carts[i].cartItems, [product |-> product, quantity |-> q]))
         /\ res' = Call("addProductToCart", u, pid, q, OK, "", <<carts'[i].cartItems>>)
         /\ UNCHANGED users

updateProductInCart(u, pid, q) ==
    LET i == findOne(u)
        product == findById(pid)
    IN
    IF i = 0
    THEN Throw("updateProductInCart", u, pid, q, BAD_REQUEST, "User does not have a cart")
    ELSE IF product = NullProduct
    THEN Throw("updateProductInCart", u, pid, q, BAD_REQUEST, "Product doesn't exist in database")
    ELSE LET index == findIndex(carts[i].cartItems, pid) IN
         IF index # 0
         THEN /\ carts' = save(i, [carts[i].cartItems EXCEPT ![index].quantity = q])
              /\ res' = Call("updateProductInCart", u, pid, q, OK, "", <<carts'[i].cartItems>>)
              /\ UNCHANGED users
         ELSE Throw("updateProductInCart", u, pid, q, BAD_REQUEST, "Product not in cart")

deleteProductFromCart(u, pid) ==
    LET i == findOne(u) IN
    IF i = 0
    THEN Throw("deleteProductFromCart", u, pid, 0, BAD_REQUEST, "User does not have a cart")
    ELSE LET numberOfProductsInCartBeforeDelete == Len(carts[i].cartItems)
             cartItems == filter(carts[i].cartItems, pid)
             numberOfProductsInCartAfterDelete == Len(cartItems)
         IN
         IF numberOfProductsInCartBeforeDelete = numberOfProductsInCartAfterDelete
         THEN Throw("deleteProductFromCart", u, pid, 0, BAD_REQUEST, "Product not in cart")
         ELSE /\ carts' = save(i, cartItems)
              /\ res' = Call("deleteProductFromCart", u, pid, 0, OK, "", <<>>)
              /\ UNCHANGED users

checkout(u) ==
    LET i == findOne(u)
        user == users[u]
    IN
    IF i = 0
    THEN Throw("checkout", u, NoProductId, 0, NOT_FOUND, "User has no Cart")
    ELSE IF cartHasNoItems(carts[i].cartItems)
    THEN Throw("checkout", u, NoProductId, 0, BAD_REQUEST, "Cart has no items")
    ELSE IF addressNotSet(user)
    THEN Throw("checkout", u, NoProductId, 0, BAD_REQUEST, "User's address is not set")
    ELSE LET totalCost == forEachCost(carts[i].cartItems, 0) IN
         IF insufficientBalance(totalCost, user)
         THEN Throw("checkout", u, NoProductId, 0, BAD_REQUEST, "Insufficient balance")
         ELSE /\ user.walletMoney - totalCost <= MaxWallet
              /\ carts' = save(i, <<>>)
              /\ users' = [users EXCEPT ![u].walletMoney = user.walletMoney - totalCost]
              /\ res' = Call("checkout", u, NoProductId, 0, OK, "", <<>>)

GetCart == (\E u \in Users : getCartByUser(u)) /\ UNCHANGED <<authVars, concVars>>
AddProduct ==
    /\ \E u \in Users, pid \in ProductIds, q \in Quantities : addProductToCart(u, pid, q)
    /\ UNCHANGED <<authVars, concVars>>
UpdateProduct ==
    /\ \E u \in Users, pid \in ProductIds, q \in Quantities : updateProductInCart(u, pid, q)
    /\ UNCHANGED <<authVars, concVars>>
DeleteProduct ==
    /\ \E u \in Users, pid \in ProductIds : deleteProductFromCart(u, pid)
    /\ UNCHANGED <<authVars, concVars>>
Checkout == (\E u \in Users : checkout(u)) /\ UNCHANGED <<authVars, concVars>>

Next ==
    \/ GetCart
    \/ AddProduct
    \/ UpdateProduct
    \/ DeleteProduct
    \/ Checkout

\* The cart service, each call run to completion before the next starts.
Spec == Init /\ [][Next]_vars

(***************************************************************************)
(* The auth middleware.                                                    *)
(***************************************************************************)
\* Mutant of startsWithBearer: the scheme compared without regard to case.
startsWithBearer_AnyCase(h) == h.prefix \in {"Bearer ", "bearer "}

\* authHeader.startsWith('Bearer ')
startsWithBearer(h) == h.prefix = "Bearer "

\* jwt.verify(token, config.jwt.secret) at time t: TRUE when it returns the payload,
\* FALSE when it throws (malformed, bad signature, or exp reached).
jwtVerify(token, t) ==
    /\ token.wellFormed
    /\ token.signed
    /\ (token.exp # NoExp => t < token.exp)

\* Mutant of isAccessToken: the type of the token is not looked at.
isAccessToken_Always(decoded) == TRUE

\* decoded.type === 'access'
isAccessToken(decoded) == decoded.type = "access"

\* decoded.exp && decoded.exp < (Date.now() / 1000)
isExpired(decoded, now) == decoded.exp # NoExp /\ decoded.exp # 0 /\ decoded.exp < now

\* next(x): the continuation is called, with an error's status or with NoError.
next(x) == nextCalls' = Append(nextCalls, x)

\* auth(req, res, next) up to its return: the clock reads t1 inside jwt.verify and
\* t2 >= t1 at the expiry check.
auth(r, t1, t2) ==
    /\ pc \in {"idle", "failed", "served", "hung"}
    /\ req' = r
    /\ clock' = [verify |-> t1, check |-> t2]
    /\ report' = NoReport
    /\ UNCHANGED <<cartVars, concVars>>
    /\ LET authHeader == r.authorization
           token == authHeader.token
       IN
       IF ~authHeader.present \/ ~startsWithBearer(authHeader)
       THEN /\ nextCalls' = <<UNAUTHORIZED>>
            /\ pc' = "failed"
            /\ promise' = [state |-> "none", reason |-> NoError]
       ELSE IF ~jwtVerify(token, t1)
       THEN /\ nextCalls' = <<UNAUTHORIZED>>
            /\ pc' = "failed"
            /\ promise' = [state |-> "none", reason |-> NoError]
       ELSE IF ~isAccessToken(token)
       THEN /\ nextCalls' = <<UNAUTHORIZED>>
            /\ pc' = "failed"
            /\ promise' = [state |-> "none", reason |-> NoError]
       ELSE IF isExpired(token, t2)
       THEN /\ nextCalls' = <<UNAUTHORIZED>>
            /\ pc' = "failed"
            /\ promise' = [state |-> "none", reason |-> NoError]
       ELSE /\ nextCalls' = <<>>
            /\ pc' = "passport"
            /\ promise' = [state |-> "pending", reason |-> NoError]

reject(status) == promise' = [state |-> "rejected", reason |-> status]
resolve == promise' = [state |-> "resolved", reason |-> NoError]

\* verifyCallback(req, resolve, reject)(err, user, info).  With a userId parameter
\* and no info, info._id throws inside the async callback: neither resolve nor
\* reject is called and the promise stays pending.
verifyCallback(err, user, info) ==
    /\ pc = "passport"
    /\ report' = [called |-> TRUE, err |-> err, user |-> user, info |-> info]
    /\ UNCHANGED <<cartVars, concVars, clock, nextCalls>>
    /\ IF err
       THEN reject(INTERNAL_SERVER_ERROR) /\ pc' = "settled" /\ UNCHANGED req
       ELSE IF user = Null
       THEN reject(UNAUTHORIZED) /\ pc' = "settled" /\ UNCHANGED req
       ELSE IF req.userId # Null /\ ~info.present
       THEN pc' = "hung" /\ UNCHANGED <<promise, req>>
       ELSE IF req.userId # Null /\ req.userId # info._id
       THEN reject(FORBIDDEN) /\ pc' = "settled" /\ UNCHANGED req
       ELSE /\ req' = [req EXCEPT !.user = user]
            /\ resolve
            /\ pc' = "settled"

\* .then(() => next())
thenNext ==
    /\ pc = "settled"
    /\ promise.state = "resolved"
    /\ next(NoError)
    /\ pc' = "handler"
    /\ UNCHANGED <<cartVars, concVars, req, clock, promise, report>>

\* .catch((err) => next(err))
catchNext ==
    /\ pc = "settled"
    /\ promise.state = "rejected"
    /\ next(promise.reason)
    /\ pc' = "failed"
    /\ UNCHANGED <<cartVars, concVars, req, clock, promise, report>>

\* The route behind the gate: after next() the cart service is called for req.user.
routeHandler ==
    /\ pc = "handler"
    /\ pc' = "served"
    /\ UNCHANGED <<concVars, req, clock, promise, report, nextCalls>>
    /\ LET productId == toString("p1") IN
       \/ getCartByUser(req.user)
       \/ addProductToCart(req.user, productId, 1)
       \/ updateProductInCart(req.user, productId, 1)
       \/ deleteProductFromCart(req.user, productId)
       \/ checkout(req.user)

\* The two clock readings of a request; they matter to a token that has an exp.
Times(r) ==
    IF r.authorization.token.exp = NoExp
    THEN {<<1, 1>>}
    ELSE {t \in (1 .. MaxTime) \X (1 .. MaxTime) : t[1] <= t[2]}

Authenticate == \E r \in Requests : \E t \in Times(r) : auth(r, t[1], t[2])
StrategyReports ==
    \E err \in BOOLEAN, user \in Users \cup {Null}, info \in Infos : verifyCallback(err, user, info)

NextAuth ==
    \/ Authenticate
    \/ StrategyReports
    \/ thenNext
    \/ catchNext
    \/ routeHandler

InitAuth ==
    /\ Init
    /\ \A u \in Users : users[u].address # default_address /\ users[u].walletMoney = MaxWallet

\* Requests passing the gate one at a time, the cart service behind it.
SpecAuth == InitAuth /\ [][NextAuth]_vars

(***************************************************************************)
(* The cart service under concurrent requests.  Each call is the sequence  *)
(* of its awaited database operations: findOne, then the write(s).  The    *)
(* user document of a request is the one loaded when the request was       *)
(* authenticated.  A save sends what the document's change tracking        *)
(* recorded: a push goes out as $push and increments __v; an assignment of *)
(* the whole array goes out as $set under the condition that __v is the    *)
(* one read, and increments it; a change of one element's field goes out   *)
(* as $set of that position under the same condition, without increment.   *)
(* A save whose condition matches no document throws a VersionError.       *)
(***************************************************************************)
\* What a request of the concurrent model asks for.
ConcProductIds == {toString("p1"), toString("p2")}
ConcCalls ==
    [op : {"getCartByUser", "checkout"}, productId : {NoProductId}, quantity : {0}] \cup
    [op : {"deleteProductFromCart"}, productId : ConcProductIds, quantity : {0}] \cup
    [op : {"addProductToCart", "updateProductInCart"}, productId : ConcProductIds,
     quantity : Quantities]

\* The schema's unique index on email.
uniqueEmail_NotEnforced(email) == TRUE
uniqueEmail(email) == Indexes(email) = {}

\* The condition {__v: v} of a versioned save.
versionMatches(i, v) == cartVersions[i] = v

\* Mutant of pushed: the array as the request read it is written back.
pushed_Overwrites(i, cartItems, item) == Append(cartItems, item)

\* cartItems.push(item); save(): the stored array with the item appended.
pushed(i, cartItems, item) == Append(carts[i].cartItems, item)

\* Mutant of checkoutWrites: the wallet saved before the cart.
checkoutWrites_UserFirst == <<"user", "cart">>

\* checkout's two saves, in the order of the code.
checkoutWrites == <<"cart", "user">>

Finish(p, status, message) ==
    proc' = [proc EXCEPT ![p].pc = "done", ![p].status = status, ![p].message = message]

\* A request arrives: req.user is loaded and the call starts.
Start(p, u, call) ==
    /\ p \notin DOMAIN proc
    /\ proc' = [q \in DOMAIN proc \cup {p} |->
                   IF q # p THEN proc[q]
                   ELSE [IdleProc EXCEPT !.pc = "findOne", !.op = call.op,
                                         !.productId = call.productId,
                                         !.quantity = call.quantity,
                                         !.user = [email |-> u, address |-> users[u].address,
                                                   walletMoney |-> users[u].walletMoney]]]
    /\ UNCHANGED <<cartVars, authVars, cartVersions>>

\* await Cart.findOne({email: user.email})
FindOne(p) ==
    /\ proc[p].pc = "findOne"
    /\ LET i == findOne(proc[p].user.email) IN
       proc' = [proc EXCEPT ![p].pc = "act",
                            ![p].obtainCart =
                                IF i = 0 THEN NoLocalCart
                                ELSE [idx |-> i, cartItems |-> carts[i].cartItems,
                                      v |-> cartVersions[i]]]
    /\ UNCHANGED <<cartVars, authVars, cartVersions>>

\* getCartByUser after its findOne
GetStep(p) ==
    /\ proc[p].pc = "act" /\ proc[p].op = "getCartByUser"
    /\ IF proc[p].obtainCart.idx = 0
       THEN Finish(p, NOT_FOUND, "User does not have a cart")
       ELSE Finish(p, OK, "")
    /\ UNCHANGED <<cartVars, authVars, cartVersions>>

\* addProductToCart after its findOne: Cart.create, or push and save
AddStep(p) ==
    /\ proc[p].pc = "act" /\ proc[p].op = "addProductToCart"
    /\ UNCHANGED <<users, res, authVars>>
    /\ LET obtainCart == proc[p].obtainCart
           product == findById(proc[p].productId)
           item == [product |-> product, quantity |-> proc[p].quantity]
       IN
       IF product = NullProduct
       THEN Finish(p, BAD_REQUEST, "Product doesn't exist in database")
            /\ UNCHANGED <<carts, cartVersions>>
       ELSE IF obtainCart.idx = 0
       THEN IF uniqueEmail(proc[p].user.email)
            THEN /\ carts' = Append(carts, [email |-> proc[p].user.email, cartItems |-> <<item>>])
                 /\ cartVersions' = Append(cartVersions, 0)
                 /\ Finish(p, OK, "")
            ELSE Finish(p, INTERNAL_SERVER_ERROR, "E11000 duplicate key")
                 /\ UNCHANGED <<carts, cartVersions>>
       ELSE IF some(obtainCart.cartItems, proc[p].productId)
       THEN Finish(p, BAD_REQUEST, "Product already in cart")
            /\ UNCHANGED <<carts, cartVersions>>
       ELSE /\ Len(carts[obtainCart.idx].cartItems) < MaxItems
            /\ carts' = [carts EXCEPT ![obtainCart.idx].cartItems =
                            pushed(obtainCart.idx, obtainCart.cartItems, item)]
            /\ cartVersions' = [cartVersions EXCEPT ![obtainCart.idx] = @ + 1]
            /\ Finish(p, OK, "")

\* updateProductInCart after its findOne: set the quantity and save
UpdateStep(p) ==
    /\ proc[p].pc = "act" /\ proc[p].op = "updateProductInCart"
    /\ UNCHANGED <<users, res, authVars, cartVersions>>
    /\ LET obtainCart == proc[p].obtainCart
           product == findById(proc[p].productId)
           index == findIndex(obtainCart.cartItems, proc[p].productId)
       IN
       IF obtainCart.idx = 0
       THEN Finish(p, BAD_REQUEST, "User does not have a cart") /\ UNCHANGED carts
       ELSE IF product = NullProduct
       THEN Finish(p, BAD_REQUEST, "Product doesn't exist in database") /\ UNCHANGED carts
       ELSE IF index = 0
       THEN Finish(p, BAD_REQUEST, "Product not in cart") /\ UNCHANGED carts
       ELSE IF versionMatches(obtainCart.idx, obtainCart.v)
       THEN /\ carts' = [carts EXCEPT ![obtainCart.idx].cartItems[index].quantity =
                            proc[p].quantity]
            /\ Finish(p, OK, "")
       ELSE Finish(p, INTERNAL_SERVER_ERROR, "VersionError") /\ UNCHANGED carts

\* deleteProductFromCart after its findOne: filter, assign and save
DeleteStep(p) ==
    /\ proc[p].pc = "act" /\ proc[p].op = "deleteProductFromCart"
    /\ UNCHANGED <<users, res, authVars>>
    /\ LET obtainCart == proc[p].obtainCart
           cartItems == filter(obtainCart.cartItems, proc[p].productId)
       IN
       IF obtainCart.idx = 0
       THEN Finish(p, BAD_REQUEST, "User does not have a cart")
            /\ UNCHANGED <<carts, cartVersions>>
       ELSE IF Len(obtainCart.cartItems) = Len(cartItems)
       THEN Finish(p, BAD_REQUEST, "Product not in cart")
            /\ UNCHANGED <<carts, cartVersions>>
       ELSE IF versionMatches(obtainCart.idx, obtainCart.v)
       THEN /\ carts' = [carts EXCEPT ![obtainCart.idx].cartItems = cartItems]
            /\ cartVersions' = [cartVersions EXCEPT ![obtainCart.idx] = @ + 1]
            /\ Finish(p, OK, "")
       ELSE Finish(p, INTERNAL_SERVER_ERROR, "VersionError")
            /\ UNCHANGED <<carts, cartVersions>>

\* checkout after its findOne, up to the first save
CheckoutStep(p) ==
    /\ proc[p].pc = "act" /\ proc[p].op = "checkout"
    /\ UNCHANGED <<cartVars, authVars, cartVersions>>
    /\ LET obtainCart == proc[p].obtainCart
           user == proc[p].user
           totalCost == forEachCost(obtainCart.cartItems, 0)
       IN
       IF obtainCart.idx = 0
       THEN Finish(p, NOT_FOUND, "User has no Cart")
       ELSE IF cartHasNoItems(obtainCart.cartItems)
       THEN Finish(p, BAD_REQUEST, "Cart has no items")
       ELSE IF addressNotSet(user)
       THEN Finish(p, BAD_REQUEST, "User's address is not set")
       ELSE IF insufficientBalance(totalCost, user)
       THEN Finish(p, BAD_REQUEST, "Insufficient balance")
       ELSE /\ user.walletMoney - totalCost <= MaxWallet
            /\ proc' = [proc EXCEPT ![p].pc = "write1", ![p].totalCost = totalCost]

\* obtainCart.cartItems = []; await obtainCart.save()
SaveCart(p, after) ==
    /\ UNCHANGED <<users, res, authVars>>
    /\ LET obtainCart == proc[p].obtainCart IN
       IF versionMatches(obtainCart.idx, obtainCart.v)
       THEN /\ carts' = [carts EXCEPT ![obtainCart.idx].cartItems = <<>>]
            /\ cartVersions' = [cartVersions EXCEPT ![obtainCart.idx] = @ + 1]
            /\ proc' = [proc EXCEPT ![p].pc = after, ![p].wroteCart = TRUE]
       ELSE Finish(p, INTERNAL_SERVER_ERROR, "VersionError")
            /\ UNCHANGED <<carts, cartVersions>>

\* user.walletMoney = user.walletMoney - totalCost; await user.save()
SaveUser(p, after) ==
    /\ users' = [users EXCEPT ![proc[p].user.email].walletMoney =
                    proc[p].user.walletMoney - proc[p].totalCost]
    /\ proc' = [proc EXCEPT ![p].pc = after, ![p].wroteUser = TRUE]
    /\ UNCHANGED <<carts, res, authVars, cartVersions>>

CheckoutWrite(p, n, after) ==
    IF checkoutWrites[n] = "cart" THEN SaveCart(p, after) ELSE SaveUser(p, after)

CheckoutFirstSave(p) == proc[p].pc = "write1" /\ CheckoutWrite(p, 1, "write2")
CheckoutSecondSave(p) ==
    /\ proc[p].pc = "write2"
    /\ CheckoutWrite(p, 2, "done")

\* The server process stops: every request in flight ends where it is.
InFlight(p) == proc[p].pc \in {"findOne", "act", "write1", "write2"}
Crash ==
    /\ \E p \in DOMAIN proc : InFlight(p)
    /\ proc' = [p \in DOMAIN proc |-> IF InFlight(p) THEN [proc[p] EXCEPT !.pc = "crashed"]
                                ELSE proc[p]]
    /\ UNCHANGED <<cartVars, authVars, cartVersions>>

\* Carts the collection can hold when the requests arrive.
InitialCarts ==
    LET item(oid) == [product |-> CHOOSE pr \in Products : pr._id = oid, quantity |-> 1]
        other == [email |-> OtherEmail, cartItems |-> <<item("p1")>>]
    IN  {<<other>>} \cup
        {<<other, [email |-> u, cartItems |-> items]>> :
            u \in Users, items \in {<<>>, <<item("p1")>>, <<item("p1"), item("p2")>>}}

InitConc ==
    /\ carts \in InitialCarts
    /\ cartVersions = [i \in 1 .. Len(carts) |-> 0]
    /\ users \in [Users -> [address : Addresses \ {default_address},
                            walletMoney : 0 .. MaxWallet]]
    /\ res = Call("none", Null, NoProductId, 0, OK, "", <<>>)
    /\ req = NoRequest
    /\ clock = [verify |-> 1, check |-> 1]
    /\ pc = "idle"
    /\ promise = [state |-> "none", reason |-> NoError]
    /\ report = NoReport
    /\ nextCalls = <<>>
    /\ proc = [p \in {} |-> IdleProc]

NextConc ==
    \/ \E p \in Procs, u \in Users, call \in ConcCalls : Start(p, u, call)
    \/ \E p \in DOMAIN proc : FindOne(p)
    \/ \E p \in DOMAIN proc : GetStep(p)
    \/ \E p \in DOMAIN proc : AddStep(p)
    \/ \E p \in DOMAIN proc : UpdateStep(p)
    \/ \E p \in DOMAIN proc : DeleteStep(p)
    \/ \E p \in DOMAIN proc : CheckoutStep(p)
    \/ \E p \in DOMAIN proc : CheckoutFirstSave(p)
    \/ \E p \in DOMAIN proc : CheckoutSecondSave(p)
    \/ Crash

\* Two requests of the same user, their database operations interleaved.
SpecConc == InitConc /\ [][NextConc]_vars

(***************************************************************************)
(* Properties of the cart service.                                         *)
(***************************************************************************)
HasCart(coll, u) == \E i \in 1 .. Len(coll) : coll[i].email = u
ItemsOf(coll, u) == coll[CHOOSE i \in 1 .. Len(coll) : coll[i].email = u].cartItems
InCart(items, oid) == \E i \in 1 .. Len(items) : items[i].product._id = oid
ItemsSum(items) ==
    LET S[n \in 0 .. Len(items)] ==
            IF n = 0 THEN 0 ELSE S[n - 1] + items[n].product.cost * items[n].quantity
    IN S[Len(items)]

\* C1: every persisted cart holds at most one CartItem per product id.
C1_OneItemPerProduct ==
    \A d \in 1 .. Len(carts) :
        \A i, j \in 1 .. Len(carts[d].cartItems) :
            carts[d].cartItems[i].product._id = carts[d].cartItems[j].product._id => i = j

\* C2: addProductToCart for a product that is already in the user's cart fails
\* with 400 and leaves the persisted cart as it was.
C2_DuplicateAddRejected ==
    [][(/\ res'.op = "addProductToCart"
        /\ HasCart(carts, res'.user)
        /\ InCart(ItemsOf(carts, res'.user), castObjectId(res'.productId)))
       => (res'.status = BAD_REQUEST /\ carts' = carts)]_vars

\* C3: a successful checkout lowers the wallet by exactly the sum over the
\* cart's items of cost times quantity.
C3_CheckoutChargesSum ==
    [][(res'.op = "checkout" /\ res'.status = OK)
       => (/\ HasCart(carts, res'.user)
           /\ users'[res'.user].walletMoney =
                  users[res'.user].walletMoney - ItemsSum(ItemsOf(carts, res'.user)))]_vars

C3_Witness ==
    /\ res.op = "checkout"
    /\ res.status = OK
    /\ users[res.user].walletMoney = 1

\* C4: after a successful checkout the cart document exists with no items; a
\* getCartByUser that follows returns the empty cart, and a checkout that
\* follows fails with 400 "Cart has no items".
C4_CartEmptiedNotDeleted ==
    [][(res'.op = "checkout" /\ res'.status = OK
           => HasCart(carts', res'.user) /\ ItemsOf(carts', res'.user) = <<>>)
       /\ ((res.op = "checkout" /\ res.status = OK /\ res'.user = res.user)
           => /\ res'.op = "getCartByUser" => res'.status = OK /\ res'.ret = <<(<<>>)>>
              /\ res'.op = "checkout"
                    => res'.status = BAD_REQUEST /\ res'.message = "Cart has no items")]_vars

C4_Witness ==
    /\ res.op = "checkout"
    /\ res.status = OK
    /\ HasCart(carts, res.user)
    /\ ItemsOf(carts, res.user) = <<>>

\* C5: checkout of a cart with no items fails with 400 whatever the address
\* and the balance, and changes neither the wallet nor the cart.
C5_EmptyCartCheckoutFails ==
    [][(/\ res'.op = "checkout"
        /\ HasCart(carts, res'.user)
        /\ ItemsOf(carts, res'.user) = <<>>)
       => (res'.status = BAD_REQUEST /\ users' = users /\ carts' = carts)]_vars

C5_Witness ==
    /\ res.op = "checkout"
    /\ res.status = BAD_REQUEST
    /\ HasCart(carts, res.user)
    /\ ItemsOf(carts, res.user) = <<>>
    /\ users[res.user].address # default_address
    /\ users[res.user].walletMoney > 0

\* C6: checkout answers 404 without a cart, else 400 for an empty cart, else
\* 400 for the default address, else 400 when the total exceeds the balance,
\* each time changing nothing; in every other case it succeeds, and a total
\* equal to the balance leaves the balance at 0.
C6_CheckoutOutcome ==
    [][res'.op = "checkout" =>
        LET u == res'.user
            unchanged == carts' = carts /\ users' = users
        IN
        IF ~HasCart(carts, u)
        THEN res'.status = NOT_FOUND /\ unchanged
        ELSE IF ItemsOf(carts, u) = <<>>
        THEN res'.status = BAD_REQUEST /\ res'.message = "Cart has no items" /\ unchanged
        ELSE IF users[u].address = default_address
        THEN res'.status = BAD_REQUEST /\ res'.message = "User's address is not set" /\ unchanged
        ELSE IF ItemsSum(ItemsOf(carts, u)) > users[u].walletMoney
        THEN res'.status = BAD_REQUEST /\ res'.message = "Insufficient balance" /\ unchanged
        ELSE /\ res'.status = OK
             /\ ItemsSum(ItemsOf(carts, u)) = users[u].walletMoney
                    => users'[u].walletMoney = 0]_vars

\* A checkout that succeeded and left the balance at 0: the total was the balance.
C6_Witness ==
    /\ res.op = "checkout"
    /\ res.status = OK
    /\ users[res.user].walletMoney = 0

\* C7: deleteProductFromCart for a product that is not in the user's cart
\* fails with 400 and leaves the persisted cart as it was.
C7_DeleteAbsentRejected ==
    [][(/\ res'.op = "deleteProductFromCart"
        /\ HasCart(carts, res'.user)
        /\ ~InCart(ItemsOf(carts, res'.user), castObjectId(res'.productId)))
       => (res'.status = BAD_REQUEST /\ carts' = carts)]_vars

C7_Witness ==
    /\ res.op = "deleteProductFromCart"
    /\ res.status = BAD_REQUEST
    /\ HasCart(carts, res.user)
    /\ Len(ItemsOf(carts, res.user)) > 0
    /\ ~InCart(ItemsOf(carts, res.user), castObjectId(res.productId))

(***************************************************************************)
(* Properties of the auth middleware.                                      *)
(***************************************************************************)
\* The credential of request r, its clock readings c: no header, not a Bearer
\* header, or a token that does not parse, is not signed with the secret, or
\* has expired.
InvalidCredential(r, c) ==
    LET h == r.authorization
        t == h.token
    IN  \/ ~h.present
        \/ h.prefix # "Bearer "
        \/ ~t.wellFormed
        \/ ~t.signed
        \/ (t.exp # NoExp /\ (t.exp <= c.verify \/ t.exp < c.check))

\* C8: a request with a missing, non-Bearer, malformed, wrongly signed or
\* expired credential gets next(401) and nothing else: the strategy is not
\* run, no cart-service call is started, no cart or wallet is changed.
C8_BadCredentialUnauthorized ==
    [][InvalidCredential(req', clock')
       => (/\ pc' = "failed"
           /\ nextCalls' = <<UNAUTHORIZED>>
           /\ ~report'.called
           /\ carts' = carts /\ users' = users /\ res' = res)]_vars

\* A token that expired between jwt.verify and the expiry check, refused
\* while the user has a cart.
C8_Witness ==
    /\ pc = "failed"
    /\ nextCalls = <<UNAUTHORIZED>>
    /\ req.authorization.prefix = "Bearer "
    /\ req.authorization.token.signed
    /\ req.authorization.token.type = "access"
    /\ req.authorization.token.exp # NoExp
    /\ clock.verify < req.authorization.token.exp
    /\ req.authorization.token.exp < clock.check
    /\ \E u \in Users : \E i \in 1 .. Len(carts) : carts[i].email = u

\* C9: next() is called without an error only for a Bearer token that
\* verified, has type "access" and has not expired, after the strategy reported
\* a user, and that user is then req.user; a signed token of another type gets
\* next(401).
C9_ProceedsOnlyAuthenticated ==
    LET h == req.authorization
        t == h.token
    IN  /\ (\E n \in 1 .. Len(nextCalls) : nextCalls[n] = NoError)
            => /\ h.present /\ h.prefix = "Bearer "
               /\ t.wellFormed /\ t.signed
               /\ t.type = "access"
               /\ (t.exp = NoExp \/ (t.exp > clock.verify /\ t.exp >= clock.check))
               /\ report.called /\ ~report.err /\ report.user # Null
               /\ req.user = report.user
        /\ (pc # "idle" /\ h.present /\ h.prefix = "Bearer "
                /\ t.wellFormed /\ t.signed /\ t.type # "access")
            => (pc = "failed" /\ nextCalls = <<UNAUTHORIZED>>)

C9_Witness ==
    /\ pc = "handler"
    /\ nextCalls = <<NoError>>
    /\ req.user \in Users
    /\ req.authorization.token.exp # NoExp

\* C10: once the strategy has reported a user whose id differs from the
\* userId parameter, the request is rejected with 403 and has no req.user;
\* once it has reported no user, the request is rejected with 401.
C10_UserIdMismatchForbidden ==
    /\ (report.called /\ ~report.err /\ report.user # Null
            /\ req.userId # Null /\ req.userId # IdOf(report.user))
        => (promise = [state |-> "rejected", reason |-> FORBIDDEN] /\ req.user = Null)
    /\ (report.called /\ ~report.err /\ report.user = Null)
        => promise = [state |-> "rejected", reason |-> UNAUTHORIZED]

(***************************************************************************)
(* Further properties of the cart service.                                 *)
(***************************************************************************)
Emails == Users \cup {OtherEmail}
IsProduct(oid) == \E p \in Products : p._id = oid

\* C11: a cart appears only by a successful addProductToCart of its user and
\* never disappears; getCartByUser answers 404 when the user has no cart and
\* the persisted cart otherwise, and changes nothing.
C11_CartLifecycle ==
    [][/\ \A u \in Emails :
            /\ HasCart(carts, u) => HasCart(carts', u)
            /\ (~HasCart(carts, u) /\ HasCart(carts', u))
                => (res'.op = "addProductToCart" /\ res'.user = u /\ res'.status = OK)
       /\ (res'.op = "addProductToCart" /\ res'.status = OK) => HasCart(carts', res'.user)
       /\ res'.op = "getCartByUser"
            => /\ carts' = carts /\ users' = users
               /\ IF HasCart(carts, res'.user)
                  THEN res'.status = OK /\ res'.ret = <<ItemsOf(carts, res'.user)>>
                  ELSE /\ res'.status = NOT_FOUND
                       /\ res'.message = "User does not have a cart"]_vars

C11_Witness ==
    /\ res.op = "getCartByUser"
    /\ res.status = OK
    /\ HasCart(carts, res.user)
    /\ res.ret = <<ItemsOf(carts, res.user)>>
    /\ Len(ItemsOf(carts, res.user)) = MaxItems

\* C12: addProductToCart for an id that is no product fails with 400 and
\* changes nothing: no cart is created and an existing cart stays as it was.
C12_UnknownProductRejected ==
    [][(res'.op = "addProductToCart" /\ ~IsProduct(castObjectId(res'.productId)))
       => (res'.status = BAD_REQUEST /\ carts' = carts /\ users' = users)]_vars

C12_Witness ==
    /\ res.op = "addProductToCart"
    /\ res.status = BAD_REQUEST
    /\ ~IsProduct(castObjectId(res.productId))
    /\ ~HasCart(carts, res.user)

\* C13: updateProductInCart fails with 400 and changes nothing when the user
\* has no cart, the id is no product or the product is not in the cart;
\* otherwise it succeeds, the one item of that product gets the quantity and
\* the number, order and other quantities of the items stay.
C13_UpdateOutcome ==
    [][res'.op = "updateProductInCart" =>
        LET u == res'.user
            oid == castObjectId(res'.productId)
        IN
        IF ~HasCart(carts, u) \/ ~IsProduct(oid) \/ ~InCart(ItemsOf(carts, u), oid)
        THEN res'.status = BAD_REQUEST /\ carts' = carts /\ users' = users
        ELSE LET old == ItemsOf(carts, u)
                 new == ItemsOf(carts', u)
             IN  /\ res'.status = OK
                 /\ Cardinality({i \in 1 .. Len(old) : old[i].product._id = oid}) = 1
                 /\ Len(new) = Len(old)
                 /\ \A i \in 1 .. Len(old) :
                        /\ new[i].product = old[i].product
                        /\ new[i].quantity =
                               IF old[i].product._id = oid THEN res'.quantity
                               ELSE old[i].quantity]_vars

\* C17: a successful deleteProductFromCart removes one item, the one of that
\* product; the other items keep their order and quantities.
C17_DeleteRemovesOne ==
    [][(res'.op = "deleteProductFromCart" /\ res'.status = OK) =>
        LET old == ItemsOf(carts, res'.user)
            new == ItemsOf(carts', res'.user)
            oid == castObjectId(res'.productId)
        IN  /\ Len(new) = Len(old) - 1
            /\ \E k \in 1 .. Len(old) :
                   /\ old[k].product._id = oid
                   /\ new = SubSeq(old, 1, k - 1) \o SubSeq(old, k + 1, Len(old))]_vars

\* C19: no call of the cart service raises a user's wallet balance.
C19_WalletNeverIncreases ==
    [][\A u \in Users : users'[u].walletMoney <= users[u].walletMoney]_vars

\* C20: a request that the gate has finished with has had exactly one call
\* of next, and a request still in the gate none yet and a step left to take.
C20_NextExactlyOnce ==
    /\ pc \in {"passport", "settled"} => Len(nextCalls) = 0
    /\ pc \in {"failed", "handler", "served", "hung"} => Len(nextCalls) = 1


(***************************************************************************)
(* Properties of the cart service under concurrent requests.               *)
(***************************************************************************)
CheckoutProcs == {p \in DOMAIN proc : proc[p].op = "checkout"}
Products_Read(p) == {proc[p].obtainCart.cartItems[k].product._id :
                        k \in 1 .. Len(proc[p].obtainCart.cartItems)}
SucceededAs(p, op) == proc[p].op = op /\ proc[p].pc = "done" /\ proc[p].status = OK

\* C14: checkout saves the emptied cart first and the debited wallet second,
\* with no rollback.  A checkout that has saved the wallet has saved the cart
\* before; once it has saved the cart, the persisted cart is a later version
\* than the one purchased, empty until another request writes to it; and a
\* checkout that has saved the cart and not (yet, or ever, the process having
\* stopped) the wallet leaves the wallet at its pre-checkout balance.
C14_CartWrittenBeforeWallet ==
    \A p \in CheckoutProcs :
        LET obtainCart == proc[p].obtainCart IN
        /\ proc[p].wroteUser => proc[p].wroteCart
        /\ proc[p].wroteCart =>
              /\ cartVersions[obtainCart.idx] > obtainCart.v
              /\ cartVersions[obtainCart.idx] = obtainCart.v + 1
                    => carts[obtainCart.idx].cartItems = <<>>
        /\ (proc[p].wroteCart /\ ~proc[p].wroteUser) =>
              users[proc[p].user.email].walletMoney = proc[p].user.walletMoney

\* The process stopped between the two saves of a checkout that costs something.
C14_Witness ==
    \E p \in CheckoutProcs :
        /\ proc[p].pc = "crashed" /\ proc[p].wroteCart /\ ~proc[p].wroteUser
        /\ proc[p].totalCost > 0
        /\ ItemsOf(carts, proc[p].user.email) = <<>>
        /\ users[proc[p].user.email].walletMoney = proc[p].user.walletMoney

\* C15 as stated: no version check is used, so a successful add to an existing
\* cart persists what the call read plus its item, whatever was saved since.
C15_AddWritesBackItsRead ==
    [][\A p \in DOMAIN proc :
          (/\ proc[p].op = "addProductToCart" /\ proc[p].pc = "act"
           /\ proc[p].obtainCart.idx # 0
           /\ proc'[p].pc = "done" /\ proc'[p].status = OK)
          => carts'[proc[p].obtainCart.idx].cartItems =
                Append(proc[p].obtainCart.cartItems,
                       [product |-> findById(proc[p].productId),
                        quantity |-> proc[p].quantity])]_vars

\* C15, amended: a lost update is reachable, but not between two adds.  Every
\* add that succeeded has its product in the persisted cart when no delete or
\* checkout ran beside it; and when an update of one product and a delete of
\* another both succeed after reading the same version of the cart, the
\* persisted cart holds the quantity the delete read: the update is lost.
C15_LostUpdate ==
    \A p, q \in DOMAIN proc :
        /\ (/\ SucceededAs(p, "addProductToCart")
            /\ \A o \in DOMAIN proc \ {p} :
                  proc[o].op \in {"getCartByUser", "addProductToCart", "updateProductInCart"})
           => InCart(ItemsOf(carts, proc[p].user.email), proc[p].productId.hex)
        /\ (/\ SucceededAs(p, "updateProductInCart")
            /\ SucceededAs(q, "deleteProductFromCart")
            /\ proc[p].productId # proc[q].productId
            /\ proc[p].obtainCart.v = proc[q].obtainCart.v)
           => LET items == ItemsOf(carts, proc[p].user.email)
                  read == proc[q].obtainCart.cartItems
              IN  \A k \in 1 .. Len(items), j \in 1 .. Len(read) :
                      (/\ items[k].product._id = proc[p].productId.hex
                       /\ read[j].product._id = proc[p].productId.hex)
                      => items[k].quantity = read[j].quantity

\* An update and a delete that read the same version both returned success and
\* the persisted cart holds the quantity from before the update.
C15_Witness ==
    \E p, q \in DOMAIN proc :
        /\ SucceededAs(p, "updateProductInCart")
        /\ SucceededAs(q, "deleteProductFromCart")
        /\ proc[p].productId # proc[q].productId
        /\ proc[p].obtainCart.v = proc[q].obtainCart.v
        /\ \E k \in 1 .. Len(ItemsOf(carts, proc[p].user.email)) :
              LET item == ItemsOf(carts, proc[p].user.email)[k] IN
              /\ item.product._id = proc[p].productId.hex
              /\ item.quantity # proc[p].quantity

ReadNoCart(p) ==
    proc[p].op = "addProductToCart" /\ proc[p].pc = "done" /\ proc[p].obtainCart.idx = 0

\* C16: at most one cart document exists per email; when two adds of a user
\* both read "no cart", one creation succeeds and the other call ends in an
\* error.
C16_OneCartPerEmail ==
    /\ \A e \in Emails : Cardinality(Indexes(e)) <= 1
    /\ \A p, q \in DOMAIN proc :
          (p # q /\ ReadNoCart(p) /\ ReadNoCart(q)
           /\ proc[p].user.email = proc[q].user.email)
          => {proc[p].status, proc[q].status} = {OK, INTERNAL_SERVER_ERROR}

C16_Witness ==
    \E p, q \in DOMAIN proc :
        /\ p # q /\ ReadNoCart(p) /\ ReadNoCart(q)
        /\ proc[p].status = OK /\ proc[q].status = INTERNAL_SERVER_ERROR
        /\ Cardinality(Indexes(proc[p].user.email)) = 1

\* C18: the wallet balance is never negative, whatever the interleaving of
\* concurrent checkouts of the same user.
C18_WalletNeverNegative == \A u \in Users : users[u].walletMoney >= 0

\* Two checkouts of a user interleaved: one debited the wallet, the other's
\* save of the cart was refused.
C18_Witness ==
    \E p, q \in CheckoutProcs :
        /\ p # q /\ proc[p].user.email = proc[q].user.email
        /\ proc[p].pc = "done" /\ proc[p].wroteUser /\ proc[p].totalCost > 0
        /\ proc[q].pc = "done" /\ proc[q].message = "VersionError"
        /\ users[proc[p].user.email].walletMoney >= 0

====
